---- MODULE Spec2Model ----
(***************************************************************************)
(* RPageSourceChain (tree/ntuple/v7/src/RPageStorageChain.cxx): a page     *)
(* source that presents several attached page sources as one ntuple.       *)
(*                                                                         *)
(* Ids are 0-based as in the code: sources 0..n-1, table rows 0..n,        *)
(* columns 0..nColumns-1, clusters 0..nClusters-1.                         *)
(***************************************************************************)
EXTENDS Integers, Sequences, FiniteSets, TLC

\* Bounds of the model.
MaxSources == 2        \* sources in a chain
MaxPins == 2           \* references a source's page pool keeps on one buffer

\* The input sets.
ClusterCounts == {0, 1, 2}   \* clusters in one source
EntryCounts == {0, 1}        \* entries in one cluster
ClusterOffsets == {0, 1}     \* in-cluster offsets a caller asks for
Buffers == {1}               \* buffer addresses the allocator hands out

ChainIds == {"chain", "clone"}

VARIABLES
  files,          \* locationVec: 0..n-1 -> descriptor stored at that location
  srcDescriptor,  \* source object id -> its descriptor (RPageSource::GetDescriptor)
  srcPool,        \* source object id -> [Buffers -> references its page pool holds]
  status,         \* chain id -> "none" | "ok" | "failed" (constructor threw)
  fNTupleName,    \* chain id -> RPageStorage::fNTupleName
  fOptions,       \* chain id -> RPageSource::fOptions
  fSources,       \* chain id -> (0..n-1 -> source object id)
  fUnsafe,        \* chain id -> BOOLEAN
  nWarnings,      \* chain id -> diagnostics CompareFileMetaData has emitted
  fNEntryPerSource,
  fNClusterPerSource,
  fNElementsPerColumnPerSource,
  fPageMapper,    \* chain id -> partial function buffer -> source index
  fDescriptor,    \* chain id -> merged descriptor (empty until Attach)
  held,           \* chain id -> [Buffers -> [n: pages the caller holds, src: producer]]
  last            \* the last call on a chain, the calls it made and its result

vars == <<files, srcDescriptor, srcPool, status, fNTupleName, fOptions,
          fSources, fUnsafe, nWarnings,
          fNEntryPerSource, fNClusterPerSource, fNElementsPerColumnPerSource,
          fPageMapper, fDescriptor, held, last>>

tables == <<fNEntryPerSource, fNClusterPerSource, fNElementsPerColumnPerSource>>
\* What the constructor sets and no other member function of the file assigns.
fixed == <<files, srcDescriptor, status, fNTupleName, fOptions, fSources, fUnsafe,
           nWarnings, tables>>

-----------------------------------------------------------------------------
\* Descriptors (RNTupleDescriptor): fields, columns, clusters with one column
\* range per column.

NullBuffer == 0
kInvalidDescriptorId == -1

GetNFields(d) == Cardinality(DOMAIN d.fields)
GetNColumns(d) == Cardinality(DOMAIN d.columns)
GetNClusters(d) == Cardinality(DOMAIN d.clusters)
GetFieldDescriptor(d, j) == d.fields[j]
GetColumnDescriptor(d, j) == d.columns[j]
HasCluster(d, k) == k \in DOMAIN d.clusters
GetClusterDescriptor(d, k) == d.clusters[k]
HasColumnRange(cd, j) == j \in DOMAIN cd.fColumnRanges
GetColumnRange(cd, j) == cd.fColumnRanges[j]

\* RPageSource::GetNEntries: the entries of all clusters of the descriptor.
GetNEntries(d) ==
  LET s[k \in 0..GetNClusters(d)] ==
        IF k = 0 THEN 0 ELSE s[k - 1] + d.clusters[k - 1].fNEntries
  IN s[GetNClusters(d)]

\* RColumnRange::Contains
Contains(r, index) ==
  r.fFirstElementIndex <= index /\ index < r.fFirstElementIndex + r.fNElements

EmptyDescriptor == [fields |-> <<>>, columns |-> <<>>, clusters |-> <<>>]

\* A descriptor as a writer leaves it: cluster k starts at the entry, and each
\* column range at the element, where cluster k-1 ended.
MakeDescriptor(fields, columns, perEntry, layout) ==
  LET nc == Cardinality(DOMAIN layout)
      firstEntry[k \in 0..nc] ==
        IF k = 0 THEN 0 ELSE firstEntry[k - 1] + layout[k - 1]
  IN [fields |-> fields,
      columns |-> columns,
      clusters |->
        [k \in 0..(nc - 1) |->
           [fFirstEntryIndex |-> firstEntry[k],
            fNEntries |-> layout[k],
            fColumnRanges |->
              [c \in DOMAIN columns |->
                 [fFirstElementIndex |-> perEntry[c] * firstEntry[k],
                  fNElements |-> perEntry[c] * layout[k]]]]]]

\* Entries per cluster of one source: a writer fills every cluster but the
\* last, which holds what was left when the file was closed.
ClusterSize == CHOOSE e \in EntryCounts : \A f \in EntryCounts : f <= e
Layouts ==
  {layout \in UNION {[0..(k - 1) -> EntryCounts] : k \in ClusterCounts} :
     \A k \in DOMAIN layout : k + 1 \in DOMAIN layout => layout[k] = ClusterSize}

\* The schema of the layout runs: one field with an index column (one element
\* per entry) and a value column (two elements per entry).
PlainFields == [j \in 0..0 |-> "std::vector<float>"]
PlainColumns == [j \in 0..1 |-> IF j = 0 THEN "kIndex" ELSE "kReal32"]
PlainPerEntry == [j \in 0..1 |-> j + 1]

\* The schemas of the schema runs: the plain one-column schema and the ones
\* that differ from it in the fields or in the columns; every source holds
\* one cluster of one entry.
FieldLists ==
  {[j \in 0..0 |-> "float"], [j \in 0..0 |-> "int"], [j \in 0..1 |-> "float"]}
ColumnLists ==
  {[j \in 0..0 |-> "kReal32"], [j \in 0..0 |-> "kInt32"], [j \in 0..1 |-> "kReal32"]}
Schemas ==
  {s \in [fields : FieldLists, columns : ColumnLists] :
     \/ s.fields = [j \in 0..0 |-> "float"]
     \/ s.columns = [j \in 0..0 |-> "kReal32"]}

-----------------------------------------------------------------------------
\* CompareFileMetaData (lines 68-104). D: 0..n-1 -> descriptor of source i.

CountsDiffer(d0, d) ==
  \/ GetNFields(d0) # GetNFields(d)
  \/ GetNColumns(d0) # GetNColumns(d)

FieldsDiffer(d0, d) ==
  \E j \in 0..(GetNFields(d0) - 1) :
     GetFieldDescriptor(d0, j) # GetFieldDescriptor(d, j)

ColumnsDiffer(d0, d) ==
  \E j \in 0..(GetNColumns(d0) - 1) :
     GetColumnDescriptor(d0, j) # GetColumnDescriptor(d, j)

\* The body of the loop over i: one diagnostic and fUnsafe on the first test
\* that fails, the later tests are not reached.
CompareCountsOnly(d0, d) == CountsDiffer(d0, d)
SourceMismatch(d0, d) ==
  CountsDiffer(d0, d) \/ FieldsDiffer(d0, d) \/ ColumnsDiffer(d0, d)

RECURSIVE CompareFrom(_, _)
CompareFrom(D, i) ==
  IF i >= Cardinality(DOMAIN D) THEN [fUnsafe |-> FALSE, nWarnings |-> 0]
  ELSE IF SourceMismatch(D[0], D[i]) THEN [fUnsafe |-> TRUE, nWarnings |-> 1]
  ELSE CompareFrom(D, i + 1)

CompareFileMetaData(D) == CompareFrom(D, 1)

-----------------------------------------------------------------------------
\* InitializeVariables (lines 106-135).

NEntryTable(D) ==
  LET n == Cardinality(DOMAIN D)
      t[i \in 0..n] == IF i = 0 THEN 0 ELSE t[i - 1] + GetNEntries(D[i - 1])
  IN t

NClusterTable(D) ==
  LET n == Cardinality(DOMAIN D)
      t[i \in 0..n] == IF i = 0 THEN 0 ELSE t[i - 1] + GetNClusters(D[i - 1])
  IN t

\* lastClusterId (line 129). With no cluster the unsigned subtraction wraps to
\* an id no cluster has; -1 stands for it.
LastClusterId(d) == GetNClusters(d) - 1

\* Lines 129-130 read cluster lastClusterId and its range of column j through
\* checked lookups: both must exist or the constructor throws.
RangeReadable(d, j) ==
  /\ HasCluster(d, LastClusterId(d))
  /\ HasColumnRange(GetClusterDescriptor(d, LastClusterId(d)), j)

\* Elements source d holds of column j (line 132, first two summands).
NElementsOnly(d, j) ==
  GetColumnRange(GetClusterDescriptor(d, LastClusterId(d)), j).fNElements
NElementsOfSource(d, j) ==
  LET columnDescript == GetColumnRange(GetClusterDescriptor(d, LastClusterId(d)), j)
  IN columnDescript.fFirstElementIndex + columnDescript.fNElements

InitializeThrows(D) ==
  \E i \in DOMAIN D : \E j \in 0..(GetNColumns(D[0]) - 1) : ~RangeReadable(D[i], j)

NElementsTable(D) ==
  LET n == Cardinality(DOMAIN D)
      nColumns == GetNColumns(D[0])
      t[i \in 0..n] ==
        IF i = 0 THEN [j \in 0..(nColumns - 1) |-> 0]
        ELSE [j \in 0..(nColumns - 1) |->
                NElementsOfSource(D[i - 1], j) + t[i - 1][j]]
  IN t

-----------------------------------------------------------------------------
\* DoAttach (lines 137-145): the header and footer of source 0, then the
\* clusters of every further source appended under the chain's numbering.

\* The source that owns row value v of a prefix table: the i with
\* table[i] <= v < table[i+1].
OwnerOf(table, n, v) == CHOOSE i \in 0..(n - 1) : table[i] <= v /\ v < table[i + 1]

MergedDescriptor(D, eBase, cBase, elBase) ==
  LET n == Cardinality(DOMAIN D)
  IN [fields |-> D[0].fields,
      columns |-> D[0].columns,
      clusters |->
        [k \in 0..(cBase[n] - 1) |->
           LET i == OwnerOf(cBase, n, k)
               cd == GetClusterDescriptor(D[i], k - cBase[i])
           IN [fFirstEntryIndex |-> cd.fFirstEntryIndex + eBase[i],
               fNEntries |-> cd.fNEntries,
               fColumnRanges |->
                 [c \in DOMAIN D[0].columns |->
                    [fFirstElementIndex |->
                       GetColumnRange(cd, c).fFirstElementIndex + elBase[i][c],
                     fNElements |-> GetColumnRange(cd, c).fNElements]]]]]

\* RNTupleDescriptor::FindClusterId(columnId, index): the cluster whose range
\* of the column contains the index, kInvalidDescriptorId when there is none.
FindClusterId(d, columnId, index) ==
  IF \E k \in DOMAIN d.clusters :
        Contains(GetColumnRange(GetClusterDescriptor(d, k), columnId), index)
  THEN CHOOSE k \in DOMAIN d.clusters :
        Contains(GetColumnRange(GetClusterDescriptor(d, k), columnId), index)
  ELSE kInvalidDescriptorId

-----------------------------------------------------------------------------
\* Helpers of the chain's state.

NSources(ch) == Cardinality(DOMAIN fSources[ch])
Descriptors(ch) == [i \in DOMAIN fSources[ch] |-> srcDescriptor[fSources[ch][i]]]
EmptyPool == [b \in Buffers |-> 0]
NotHeld == [n |-> 0, src |-> 0]
NoCall == <<>>
NullPage == [buffer |-> NullBuffer, first |-> 0, clusterInfo |-> [fId |-> 0, fSelfOffset |-> 0]]
NoClusterIndex == [fClusterId |-> 0, fIndex |-> 0]

\* No source object has the buffer allocated.
BufferFree(b) == \A o \in DOMAIN srcPool : srcPool[o][b] = 0

\* std::unordered_map::emplace keeps an entry that is already there.
Emplace(m, key, value) ==
  IF key \in DOMAIN m THEN m
  ELSE [k \in DOMAIN m \cup {key} |-> IF k = key THEN value ELSE m[k]]

\* std::unordered_map::erase(key)
EraseNothing(m, key) == m
Erase(m, key) == [k \in DOMAIN m \ {key} |-> m[k]]

\* Everything but the stored files before a chain is constructed.
NothingConstructed ==
  /\ srcDescriptor = <<>>
  /\ srcPool = <<>>
  /\ status = [ch \in ChainIds |-> "none"]
  /\ fNTupleName = [ch \in ChainIds |-> ""]
  /\ fOptions = [ch \in ChainIds |-> ""]
  /\ fSources = [ch \in ChainIds |-> <<>>]
  /\ fUnsafe = [ch \in ChainIds |-> FALSE]
  /\ nWarnings = [ch \in ChainIds |-> 0]
  /\ fNEntryPerSource = [ch \in ChainIds |-> <<>>]
  /\ fNClusterPerSource = [ch \in ChainIds |-> <<>>]
  /\ fNElementsPerColumnPerSource = [ch \in ChainIds |-> <<>>]
  /\ fPageMapper = [ch \in ChainIds |-> <<>>]
  /\ fDescriptor = [ch \in ChainIds |-> EmptyDescriptor]
  /\ held = [ch \in ChainIds |-> [b \in Buffers |-> NotHeld]]
  /\ last = [op |-> "none", ch |-> "chain", col |-> 0, globalIndex |-> 0,
             clusterIndex |-> NoClusterIndex, sourceIndex |-> 0,
             calls |-> NoCall, status |-> "ok", page |-> NullPage]

\* Files of one schema and every layout.
Init ==
  /\ \E n \in 1..MaxSources :
     \E layout \in [0..(n - 1) -> Layouts] :
        files = [i \in 0..(n - 1) |->
                   MakeDescriptor(PlainFields, PlainColumns, PlainPerEntry, layout[i])]
  /\ NothingConstructed

\* Files of one layout and every schema.
InitSchema ==
  /\ \E n \in 1..MaxSources :
     \E schema \in [0..(n - 1) -> Schemas] :
        files = [i \in 0..(n - 1) |->
                   MakeDescriptor(schema[i].fields, schema[i].columns,
                                  [j \in DOMAIN schema[i].columns |-> 1],
                                  [k \in 0..0 |-> 1])]
  /\ NothingConstructed

-----------------------------------------------------------------------------
\* The constructors (lines 29-57): register the sources, CompareFileMetaData,
\* InitializeVariables. objs: 0..n-1 -> the attached source objects, D their
\* descriptors.

ConstructOver(ch, ntupleName, options, objs, D) ==
  LET cmp == CompareFileMetaData(D)
  IN /\ fNTupleName' = [fNTupleName EXCEPT ![ch] = ntupleName]
     /\ fOptions' = [fOptions EXCEPT ![ch] = options]
     /\ srcDescriptor' =
          [o \in DOMAIN srcDescriptor \cup {objs[i] : i \in DOMAIN objs} |->
             IF o \in DOMAIN srcDescriptor THEN srcDescriptor[o]
             ELSE D[CHOOSE i \in DOMAIN objs : objs[i] = o]]
     /\ srcPool' =
          [o \in DOMAIN srcPool \cup {objs[i] : i \in DOMAIN objs} |->
             IF o \in DOMAIN srcPool THEN srcPool[o] ELSE EmptyPool]
     /\ fSources' = [fSources EXCEPT ![ch] = objs]
     /\ fUnsafe' = [fUnsafe EXCEPT ![ch] = cmp.fUnsafe]
     /\ nWarnings' = [nWarnings EXCEPT ![ch] = cmp.nWarnings]
     /\ IF InitializeThrows(D)
        THEN /\ status' = [status EXCEPT ![ch] = "failed"]
             /\ UNCHANGED tables
        ELSE /\ status' = [status EXCEPT ![ch] = "ok"]
             /\ fNEntryPerSource' = [fNEntryPerSource EXCEPT ![ch] = NEntryTable(D)]
             /\ fNClusterPerSource' = [fNClusterPerSource EXCEPT ![ch] = NClusterTable(D)]
             /\ fNElementsPerColumnPerSource' =
                  [fNElementsPerColumnPerSource EXCEPT ![ch] = NElementsTable(D)]
     /\ last' = [op |-> "Construct", ch |-> ch, col |-> 0, globalIndex |-> 0,
                 clusterIndex |-> NoClusterIndex, sourceIndex |-> 0,
                 calls |-> NoCall,
                 status |-> IF InitializeThrows(D) THEN "threw" ELSE "ok",
                 page |-> NullPage]
     /\ UNCHANGED <<files, fPageMapper, fDescriptor, held>>

\* RPageSourceChain(ntupleName, locationVec, options), lines 29-43: one
\* source is created and attached per location.
Construct ==
  /\ status["chain"] = "none"
  /\ ConstructOver("chain", "Events", "RNTupleReadOptions",
                   [i \in DOMAIN files |-> i], files)

\* s->Clone() (line 51): a new source object (fresh) over the storage of s.
ShareSource(s, fresh) == s
CloneSource(s, fresh) == fresh

\* Clone (lines 147-154): RPageSourceChain(fNTupleName, sourceVec, fOptions),
\* lines 45-57, over the raw pointers of this chain's sources.
Clone ==
  /\ status["chain"] = "ok"
  /\ status["clone"] = "none"
  /\ LET n == NSources("chain")
         next == Cardinality(DOMAIN srcDescriptor)
         objs == [i \in 0..(n - 1) |-> CloneSource(fSources["chain"][i], next + i)]
     IN ConstructOver("clone", fNTupleName["chain"], fOptions["chain"],
                      objs, Descriptors("chain"))

\* RPageSource::Attach: fDescriptor = DoAttach().
Attach(ch) ==
  /\ status[ch] = "ok"
  /\ fDescriptor[ch] = EmptyDescriptor
  /\ fDescriptor' =
       [fDescriptor EXCEPT ![ch] =
          MergedDescriptor(Descriptors(ch), fNEntryPerSource[ch],
                           fNClusterPerSource[ch], fNElementsPerColumnPerSource[ch])]
  /\ last' = [op |-> "Attach", ch |-> ch, col |-> 0, globalIndex |-> 0,
              clusterIndex |-> NoClusterIndex, sourceIndex |-> 0,
              calls |-> NoCall, status |-> "ok", page |-> NullPage]
  /\ UNCHANGED <<fixed, srcPool, fPageMapper, held>>

-----------------------------------------------------------------------------
\* PopulatePage (lines 156-201).

\* The scan of lines 159-163 and 183-187: the first sourceIndex with
\* index < table[sourceIndex + 1], fSources.size() when there is none.
SourceIndexInclusive(table, n, index) ==
  IF \E s \in 0..(n - 1) : index <= table[s + 1]
  THEN CHOOSE s \in 0..(n - 1) :
         /\ index <= table[s + 1]
         /\ \A r \in 0..(s - 1) : ~(index <= table[r + 1])
  ELSE n
SourceIndexClamped(table, n, index) ==
  IF \E s \in 0..(n - 1) : index < table[s + 1]
  THEN CHOOSE s \in 0..(n - 1) :
         /\ index < table[s + 1]
         /\ \A r \in 0..(s - 1) : ~(index < table[r + 1])
  ELSE n - 1
SourceIndex(table, n, index) ==
  IF \E s \in 0..(n - 1) : index < table[s + 1]
  THEN CHOOSE s \in 0..(n - 1) :
         /\ index < table[s + 1]
         /\ \A r \in 0..(s - 1) : ~(index < table[r + 1])
  ELSE n

\* newClusterIndex (lines 190-191)
SameClusterIndex(clusterIndex, base) == clusterIndex
NewClusterIndex(clusterIndex, base) ==
  [fClusterId |-> clusterIndex.fClusterId - base, fIndex |-> clusterIndex.fIndex]

\* The first argument of SetWindow (lines 173 and 198).
WindowFirstByEntry(ch, sourceIndex, columnId, first) ==
  first + fNEntryPerSource[ch][sourceIndex]
WindowFirst(ch, sourceIndex, columnId, first) ==
  first + fNElementsPerColumnPerSource[ch][sourceIndex][columnId]

\* A source's PopulatePage: it fails when it does not hold the element;
\* otherwise the page sits in a newly allocated buffer or in one the source's
\* page pool already holds, which then gains a reference.
SourceCanUse(o, b) ==
  \/ BufferFree(b)
  \/ (0 < srcPool[o][b] /\ srcPool[o][b] < MaxPins)

\* Whether the source holds the element it is asked for: element index of
\* the column, or offset index within the range of the column in a cluster.
SourceHasElement(d, columnId, index) ==
  \E k \in DOMAIN d.clusters :
     Contains(GetColumnRange(GetClusterDescriptor(d, k), columnId), index)
SourceHasOffset(d, columnId, clusterIndex) ==
  /\ HasCluster(d, clusterIndex.fClusterId)
  /\ clusterIndex.fIndex <
       GetColumnRange(GetClusterDescriptor(d, clusterIndex.fClusterId), columnId).fNElements

Pin(o, b) == [srcPool EXCEPT ![o][b] = @ + 1]
Hold(ch, b, i) == [held EXCEPT ![ch][b] = [n |-> @.n + 1, src |-> i]]

\* PopulatePage(columnHandle, globalIndex), lines 156-176.
PopulatePage(ch, columnId, globalIndex) ==
  /\ status[ch] = "ok"
  /\ fDescriptor[ch] # EmptyDescriptor
  /\ LET n == NSources(ch)
         sourceIndex == SourceIndex(fNEntryPerSource[ch], n, globalIndex)
         req == [op |-> "PopulatePage", ch |-> ch, col |-> columnId,
                 globalIndex |-> globalIndex, clusterIndex |-> NoClusterIndex,
                 sourceIndex |-> sourceIndex, calls |-> NoCall,
                 status |-> "ok", page |-> NullPage]
     IN IF sourceIndex = n
        THEN \* R__ASSERT (line 164); fSources.at(n) would throw at line 166
             /\ last' = [req EXCEPT !.status = "IndexOutOfRange"]
             /\ UNCHANGED <<fixed, srcPool, fPageMapper, fDescriptor, held>>
        ELSE LET o == fSources[ch][sourceIndex]
                 localIndex == globalIndex - fNEntryPerSource[ch][sourceIndex]
                 \* the source's page starts at the element it was asked for
                 first == localIndex
                 call == [obj |-> o, op |-> "PopulatePage", index |-> localIndex,
                          clusterIndex |-> NoClusterIndex, first |-> first]
                 clusterId == FindClusterId(fDescriptor[ch], columnId, globalIndex)
             IN IF ~SourceHasElement(srcDescriptor[o], columnId, localIndex)
                THEN \* the source fails, line 166 passes its failure on
                     /\ last' = [req EXCEPT !.calls = <<call>>, !.status = "SourceError"]
                     /\ UNCHANGED <<fixed, srcPool, fPageMapper, fDescriptor, held>>
                ELSE
                \E b \in Buffers :
                  /\ SourceCanUse(o, b)
                  /\ srcPool' = Pin(o, b)
                  /\ fPageMapper' =
                       [fPageMapper EXCEPT ![ch] = Emplace(@, b, sourceIndex)]
                  /\ IF ~HasCluster(fDescriptor[ch], clusterId)
                     THEN \* GetClusterDescriptor (line 170) throws
                          /\ last' = [req EXCEPT !.calls = <<call>>,
                                                 !.status = "threw"]
                          /\ UNCHANGED held
                     ELSE LET selfOffset ==
                                GetColumnRange(GetClusterDescriptor(fDescriptor[ch], clusterId),
                                               columnId).fFirstElementIndex
                              page == [buffer |-> b,
                                       first |-> WindowFirst(ch, sourceIndex, columnId, first),
                                       clusterInfo |-> [fId |-> clusterId,
                                                        fSelfOffset |-> selfOffset]]
                          IN /\ last' = [req EXCEPT !.calls = <<call>>, !.page = page]
                             /\ held' = Hold(ch, b, sourceIndex)
                  /\ UNCHANGED <<fixed, fDescriptor>>

\* PopulatePage(columnHandle, clusterIndex), lines 178-201.
PopulatePageCluster(ch, columnId, clusterIndex) ==
  /\ status[ch] = "ok"
  /\ fDescriptor[ch] # EmptyDescriptor
  /\ LET n == NSources(ch)
         clusterId == clusterIndex.fClusterId
         sourceIndex == SourceIndex(fNClusterPerSource[ch], n, clusterId)
         req == [op |-> "PopulatePageCluster", ch |-> ch, col |-> columnId,
                 globalIndex |-> 0, clusterIndex |-> clusterIndex,
                 sourceIndex |-> sourceIndex, calls |-> NoCall,
                 status |-> "ok", page |-> NullPage]
     IN IF sourceIndex = n
        THEN \* R__ASSERT (line 188); fSources.at(n) would throw at line 192
             /\ last' = [req EXCEPT !.status = "IndexOutOfRange"]
             /\ UNCHANGED <<fixed, srcPool, fPageMapper, fDescriptor, held>>
        ELSE LET o == fSources[ch][sourceIndex]
                 newClusterIndex ==
                   NewClusterIndex(clusterIndex, fNClusterPerSource[ch][sourceIndex])
                 \* the source's page starts at the element it was asked for
                 localFirst ==
                   IF HasCluster(srcDescriptor[o], newClusterIndex.fClusterId)
                   THEN GetColumnRange(
                          GetClusterDescriptor(srcDescriptor[o], newClusterIndex.fClusterId),
                          columnId).fFirstElementIndex
                   ELSE 0
                 first == localFirst + newClusterIndex.fIndex
                 call == [obj |-> o, op |-> "PopulatePage", index |-> 0,
                          clusterIndex |-> newClusterIndex, first |-> first]
             IN IF ~SourceHasOffset(srcDescriptor[o], columnId, newClusterIndex)
                THEN \* the source fails, line 192 passes its failure on
                     /\ last' = [req EXCEPT !.calls = <<call>>, !.status = "SourceError"]
                     /\ UNCHANGED <<fixed, srcPool, fPageMapper, fDescriptor, held>>
                ELSE
                \E b \in Buffers :
                  /\ SourceCanUse(o, b)
                  /\ srcPool' = Pin(o, b)
                  /\ fPageMapper' =
                       [fPageMapper EXCEPT ![ch] = Emplace(@, b, sourceIndex)]
                  /\ IF ~HasCluster(fDescriptor[ch], clusterId)
                     THEN \* GetClusterDescriptor (line 195) throws
                          /\ last' = [req EXCEPT !.calls = <<call>>,
                                                 !.status = "threw"]
                          /\ UNCHANGED held
                     ELSE LET selfOffset ==
                                GetColumnRange(GetClusterDescriptor(fDescriptor[ch], clusterId),
                                               columnId).fFirstElementIndex
                              page == [buffer |-> b,
                                       first |-> WindowFirst(ch, sourceIndex, columnId, first),
                                       clusterInfo |-> [fId |-> clusterId,
                                                        fSelfOffset |-> selfOffset]]
                          IN /\ last' = [req EXCEPT !.calls = <<call>>, !.page = page]
                             /\ held' = Hold(ch, b, sourceIndex)
                  /\ UNCHANGED <<fixed, fDescriptor>>

-----------------------------------------------------------------------------
\* ReleasePage (lines 203-217). The caller passes a null page, a page it
\* holds, or a page whose buffer the chain does not track.

Unpin(o, b) == [srcPool EXCEPT ![o][b] = IF @ > 0 THEN @ - 1 ELSE 0]
Unhold(ch, b) ==
  [held EXCEPT ![ch][b] = IF @.n > 1 THEN [@ EXCEPT !.n = @ - 1] ELSE NotHeld]

ReleasePage(ch, b) ==
  /\ status[ch] = "ok"
  /\ LET req == [op |-> "ReleasePage", ch |-> ch, col |-> 0, globalIndex |-> 0,
                 clusterIndex |-> NoClusterIndex, sourceIndex |-> 0,
                 calls |-> NoCall, status |-> "ok",
                 page |-> [NullPage EXCEPT !.buffer = b]]
     IN IF b = NullBuffer
        THEN \* page.IsNull() (line 205)
             /\ last' = [req EXCEPT !.status = "noop"]
             /\ UNCHANGED <<srcPool, fPageMapper, held>>
        ELSE IF b \in DOMAIN fPageMapper[ch]
        THEN \* lines 208-213
             LET sourceIndex == fPageMapper[ch][b]
                 o == fSources[ch][sourceIndex]
             IN /\ held[ch][b].n > 0
                /\ srcPool' = Unpin(o, b)
                /\ fPageMapper' = [fPageMapper EXCEPT ![ch] = Erase(@, b)]
                /\ held' = Unhold(ch, b)
                /\ last' = [req EXCEPT
                              !.sourceIndex = sourceIndex,
                              !.calls = <<[obj |-> o, op |-> "ReleasePage", index |-> 0,
                                           clusterIndex |-> NoClusterIndex,
                                           first |-> 0]>>]
        ELSE \* R__ASSERT(false) (line 216)
             /\ last' = [req EXCEPT !.status = "ReleaseConsistencyViolation"]
             /\ UNCHANGED <<srcPool, fPageMapper, held>>
  /\ UNCHANGED <<fixed, fDescriptor>>

-----------------------------------------------------------------------------

\* The chains that were constructed, and the column ids of source 0's schema.
Ready == {ch \in ChainIds : status[ch] = "ok"}
Columns(ch) == 0..(GetNColumns(srcDescriptor[fSources[ch][0]]) - 1)

Next ==
  \/ Construct
  \/ Clone
  \/ \E ch \in Ready : Attach(ch)
  \/ \E ch \in Ready : \E c \in Columns(ch) :
       \E g \in 0..fNEntryPerSource[ch][NSources(ch)] :
          PopulatePage(ch, c, g)
  \/ \E ch \in Ready : \E c \in Columns(ch) :
       \E k \in 0..fNClusterPerSource[ch][NSources(ch)] :
       \E j \in ClusterOffsets :
          PopulatePageCluster(ch, c, [fClusterId |-> k, fIndex |-> j])
  \/ \E ch \in Ready : \E b \in Buffers \cup {NullBuffer} : ReleasePage(ch, b)

Spec == Init /\ [][Next]_vars
SpecSchema == InitSchema /\ [][Next]_vars

-----------------------------------------------------------------------------
\* The quantities the properties speak of, read from the sources' descriptors.

Source(ch, i) == srcDescriptor[fSources[ch][i]]

RECURSIVE EntryBase(_, _)
EntryBase(ch, i) ==
  IF i = 0 THEN 0 ELSE EntryBase(ch, i - 1) + GetNEntries(Source(ch, i - 1))

RECURSIVE ClusterBase(_, _)
ClusterBase(ch, i) ==
  IF i = 0 THEN 0 ELSE ClusterBase(ch, i - 1) + GetNClusters(Source(ch, i - 1))

\* firstElementIndex + elementCount of column c in the highest-indexed cluster.
ElementsWritten(d, c) ==
  LET r == d.clusters[GetNClusters(d) - 1].fColumnRanges[c]
  IN r.fFirstElementIndex + r.fNElements

RECURSIVE ColumnElementBase(_, _, _)
ColumnElementBase(ch, i, c) ==
  IF i = 0 THEN 0
  ELSE ColumnElementBase(ch, i - 1, c) + ElementsWritten(Source(ch, i - 1), c)

\* The source index of the one source the last call delegated to.
Delegate == CHOOSE i \in DOMAIN fSources[last.ch] :
              fSources[last.ch][i] = last.calls[1].obj

\* The cluster of descriptor d that holds entry index e.
ClusterHolding(d, e) ==
  CHOOSE k \in DOMAIN d.clusters :
    /\ d.clusters[k].fFirstEntryIndex <= e
    /\ e < d.clusters[k].fFirstEntryIndex + d.clusters[k].fNEntries

-----------------------------------------------------------------------------
\* C1: PopulatePage(column, g) with entryBase[i] <= g < entryBase[i+1] makes
\* exactly one call to a source: PopulatePage of source i with the local
\* index g - entryBase[i].
C1_EntryDispatch ==
  last.op = "PopulatePage" =>
    \A i \in 0..(NSources(last.ch) - 1) :
      (/\ EntryBase(last.ch, i) <= last.globalIndex
       /\ last.globalIndex < EntryBase(last.ch, i + 1))
      => /\ Len(last.calls) = 1
         /\ last.calls[1].op = "PopulatePage"
         /\ last.calls[1].obj = fSources[last.ch][i]
         /\ last.calls[1].index = last.globalIndex - EntryBase(last.ch, i)

\* An entry of the second source behind a first source that holds entries,
\* at a local index other than 0.
C1_Witness ==
  /\ last.op = "PopulatePage"
  /\ NSources(last.ch) = 2
  /\ Len(last.calls) = 1
  /\ last.calls[1].obj = fSources[last.ch][1]
  /\ last.calls[1].index = 1
  /\ last.globalIndex = 3

\* C2: PopulatePage(column, (k, j)) with clusterBase[i] <= k < clusterBase[i+1]
\* makes exactly one call to a source: PopulatePage of source i with the
\* cluster index (k - clusterBase[i], j); the page it returns is attributed
\* to the global cluster id k.
C2_ClusterDispatch ==
  last.op = "PopulatePageCluster" =>
    \A i \in 0..(NSources(last.ch) - 1) :
      (/\ ClusterBase(last.ch, i) <= last.clusterIndex.fClusterId
       /\ last.clusterIndex.fClusterId < ClusterBase(last.ch, i + 1))
      => /\ Len(last.calls) = 1
         /\ last.calls[1].op = "PopulatePage"
         /\ last.calls[1].obj = fSources[last.ch][i]
         /\ last.calls[1].clusterIndex =
              [fClusterId |-> last.clusterIndex.fClusterId - ClusterBase(last.ch, i),
               fIndex |-> last.clusterIndex.fIndex]
         /\ last.status = "ok" =>
              last.page.clusterInfo.fId = last.clusterIndex.fClusterId

\* A cluster of the second source, asked for at an in-cluster offset other
\* than 0, whose page came back.
C2_Witness ==
  /\ last.op = "PopulatePageCluster"
  /\ last.status = "ok"
  /\ NSources(last.ch) = 2
  /\ last.calls[1].obj = fSources[last.ch][1]
  /\ last.clusterIndex.fIndex = 1
  /\ last.calls[1].clusterIndex.fClusterId = 1
  /\ last.page.clusterInfo.fId = 3

\* C3: a page source i returned with local first element x is handed out, by
\* either PopulatePage, with first element x + columnElementBase[i][c].
C3_Rewindow ==
  (last.op \in {"PopulatePage", "PopulatePageCluster"} /\ last.status = "ok") =>
    last.page.first =
      last.calls[1].first + ColumnElementBase(last.ch, Delegate, last.col)

\* A page of the second source for the column that stores two elements per
\* entry: its element base differs from the entry base.
C3_Witness ==
  /\ last.op \in {"PopulatePage", "PopulatePageCluster"}
  /\ last.status = "ok"
  /\ Delegate = 1
  /\ last.calls[1].first = 1
  /\ ColumnElementBase(last.ch, 1, last.col) = 4
  /\ EntryBase(last.ch, 1) = 2
  /\ last.page.first = 5

\* C4: a PopulatePage whose global entry index or global cluster id is not
\* below the chain's total ends in IndexOutOfRange: it calls no source,
\* returns no page and leaves the tracker (and the sources' pools) as they
\* were.
C4_OutOfRange ==
  [][ /\ (last'.op = "PopulatePage"
          /\ last'.globalIndex >= EntryBase(last'.ch, NSources(last'.ch)))
         => /\ last'.status = "IndexOutOfRange"
            /\ last'.calls = NoCall
            /\ last'.page = NullPage
            /\ UNCHANGED <<fPageMapper, srcPool, held>>
      /\ (last'.op = "PopulatePageCluster"
          /\ last'.clusterIndex.fClusterId >= ClusterBase(last'.ch, NSources(last'.ch)))
         => /\ last'.status = "IndexOutOfRange"
            /\ last'.calls = NoCall
            /\ last'.page = NullPage
            /\ UNCHANGED <<fPageMapper, srcPool, held>>
      /\ last'.status = "IndexOutOfRange"
         => \/ /\ last'.op = "PopulatePage"
               /\ last'.globalIndex >= EntryBase(last'.ch, NSources(last'.ch))
            \/ /\ last'.op = "PopulatePageCluster"
               /\ last'.clusterIndex.fClusterId >= ClusterBase(last'.ch, NSources(last'.ch))
    ]_vars

\* An out-of-range request on a chain that tracks a page.
C4_Witness ==
  /\ last.status = "IndexOutOfRange"
  /\ fPageMapper[last.ch] # <<>>
  /\ held[last.ch][1].n > 0

\* C5: every page a caller holds has a tracker entry under its buffer whose
\* value is the index of the source that produced it.
C5_TrackerInvariant ==
  \A ch \in Ready : \A b \in Buffers :
    held[ch][b].n > 0 =>
      /\ b \in DOMAIN fPageMapper[ch]
      /\ fPageMapper[ch][b] = held[ch][b].src

\* C6: ReleasePage of a null page does nothing; of a page whose buffer is
\* tracked, it forwards the release to the tracked source and the buffer is
\* tracked no longer; of any other page it is a ReleaseConsistencyViolation
\* that calls no source.
C6_Release ==
  [][ last'.op = "ReleasePage" =>
        LET ch == last'.ch
            b == last'.page.buffer
        IN IF b = NullBuffer
           THEN /\ last'.status = "noop"
                /\ last'.calls = NoCall
                /\ UNCHANGED <<fPageMapper, srcPool, held>>
           ELSE IF b \in DOMAIN fPageMapper[ch]
           THEN /\ last'.status = "ok"
                /\ Len(last'.calls) = 1
                /\ last'.calls[1].op = "ReleasePage"
                /\ last'.calls[1].obj = fSources[ch][fPageMapper[ch][b]]
                /\ b \notin DOMAIN fPageMapper'[ch]
           ELSE /\ last'.status = "ReleaseConsistencyViolation"
                /\ last'.calls = NoCall
                /\ UNCHANGED <<fPageMapper, srcPool, held>>
    ]_vars

\* A page of the second source was released: its source got the call and
\* the tracker is empty again.
C6_Witness ==
  /\ last.op = "ReleasePage"
  /\ last.status = "ok"
  /\ last.sourceIndex = 1
  /\ last.calls[1].obj = fSources[last.ch][1]
  /\ fPageMapper[last.ch] = <<>>

\* C7: fUnsafe of a constructed chain is set exactly when some source 1..n-1
\* differs from source 0 in its fields or in its columns (their number or
\* one of the descriptors); one diagnostic is emitted when it is set and
\* none otherwise; no later call clears it.
C7_Unsafe ==
  /\ [](\A ch \in Ready :
          /\ fUnsafe[ch] <=>
               \E i \in 1..(NSources(ch) - 1) :
                  \/ Source(ch, i).fields # Source(ch, 0).fields
                  \/ Source(ch, i).columns # Source(ch, 0).columns
          /\ nWarnings[ch] = IF fUnsafe[ch] THEN 1 ELSE 0)
  /\ [][\A ch \in Ready : fUnsafe[ch] => fUnsafe'[ch]]_vars

\* Two sources with as many fields and columns, one field descriptor
\* differing, read from after construction.
C7_Witness ==
  /\ last.op = "ReleasePage"
  /\ last.status = "ok"
  /\ fUnsafe[last.ch]
  /\ NSources(last.ch) = 2
  /\ ~CountsDiffer(Source(last.ch, 0), Source(last.ch, 1))
  /\ Source(last.ch, 0).columns = Source(last.ch, 1).columns

\* C8: the three tables of a constructed chain have rows 0..n, row 0 is 0,
\* row i+1 is row i plus source i's count (entries; clusters; per column the
\* first element index plus the element count of the range in the source's
\* highest-indexed cluster), so every table is non-decreasing; no later call
\* changes a table.
C8_Tables ==
  /\ [](\A ch \in Ready :
          LET n == NSources(ch)
              nColumns == GetNColumns(Source(ch, 0))
          IN /\ DOMAIN fNEntryPerSource[ch] = 0..n
             /\ DOMAIN fNClusterPerSource[ch] = 0..n
             /\ DOMAIN fNElementsPerColumnPerSource[ch] = 0..n
             /\ fNEntryPerSource[ch][0] = 0
             /\ fNClusterPerSource[ch][0] = 0
             /\ \A i \in 0..n :
                  DOMAIN fNElementsPerColumnPerSource[ch][i] = 0..(nColumns - 1)
             /\ \A c \in 0..(nColumns - 1) : fNElementsPerColumnPerSource[ch][0][c] = 0
             /\ \A i \in 0..(n - 1) :
                  /\ fNEntryPerSource[ch][i + 1] =
                       fNEntryPerSource[ch][i] + GetNEntries(Source(ch, i))
                  /\ fNClusterPerSource[ch][i + 1] =
                       fNClusterPerSource[ch][i] + GetNClusters(Source(ch, i))
                  /\ fNEntryPerSource[ch][i] <= fNEntryPerSource[ch][i + 1]
                  /\ fNClusterPerSource[ch][i] <= fNClusterPerSource[ch][i + 1]
                  /\ \A c \in 0..(nColumns - 1) :
                       /\ fNElementsPerColumnPerSource[ch][i + 1][c] =
                            fNElementsPerColumnPerSource[ch][i][c]
                              + ElementsWritten(Source(ch, i), c)
                       /\ fNElementsPerColumnPerSource[ch][i][c] <=
                            fNElementsPerColumnPerSource[ch][i + 1][c])
  /\ [][\A ch \in Ready :
          /\ fNEntryPerSource'[ch] = fNEntryPerSource[ch]
          /\ fNClusterPerSource'[ch] = fNClusterPerSource[ch]
          /\ fNElementsPerColumnPerSource'[ch] = fNElementsPerColumnPerSource[ch]]_vars

\* Two sources of two clusters each, read from after construction: the last
\* cluster of the first source does not start at element 0.
C8_Witness ==
  /\ last.op = "PopulatePage"
  /\ last.status = "ok"
  /\ NSources(last.ch) = 2
  /\ fNEntryPerSource[last.ch] = [i \in 0..2 |-> 2 * i]
  /\ fNClusterPerSource[last.ch] = [i \in 0..2 |-> 2 * i]
  /\ fNElementsPerColumnPerSource[last.ch][2] = [c \in 0..1 |-> 4 * (c + 1)]

\* C9 as stated: the i-th source of the clone is the original's i-th source.
C9_SharedSources ==
  status["clone"] = "ok" =>
    \A i \in DOMAIN fSources["chain"] : fSources["clone"][i] = fSources["chain"][i]

\* C9 as amended: the clone has as many sources as the original, its i-th
\* source is a new source object with the descriptor of the original's i-th
\* source; dataset name, options, tables and fUnsafe are the original's; the
\* clone's tracker starts empty, and a call on one chain leaves the other
\* chain's tracker as it was.
C9_Clone ==
  /\ [](status["clone"] = "ok" =>
          /\ DOMAIN fSources["clone"] = DOMAIN fSources["chain"]
          /\ \A i \in DOMAIN fSources["chain"] :
               /\ fSources["clone"][i] \notin
                    {fSources["chain"][k] : k \in DOMAIN fSources["chain"]}
               /\ Source("clone", i) = Source("chain", i)
          /\ fNTupleName["clone"] = fNTupleName["chain"]
          /\ fOptions["clone"] = fOptions["chain"]
          /\ fNEntryPerSource["clone"] = fNEntryPerSource["chain"]
          /\ fNClusterPerSource["clone"] = fNClusterPerSource["chain"]
          /\ fNElementsPerColumnPerSource["clone"] = fNElementsPerColumnPerSource["chain"]
          /\ fUnsafe["clone"] = fUnsafe["chain"])
  /\ [][ /\ (status["clone"] = "none" /\ status'["clone"] = "ok")
            => fPageMapper'["clone"] = <<>>
         /\ \A ch \in ChainIds :
              last'.ch # ch => fPageMapper'[ch] = fPageMapper[ch]
     ]_vars

\* The clone tracks a page of its second source; the original, asked to
\* release that page, does not know it.
C9_Witness ==
  /\ status["clone"] = "ok"
  /\ NSources("clone") = 2
  /\ 1 \in DOMAIN fPageMapper["clone"]
  /\ fPageMapper["clone"][1] = 1
  /\ held["clone"][1].n > 0
  /\ fPageMapper["chain"] = <<>>
  /\ last.ch = "chain"
  /\ last.op = "ReleasePage"
  /\ last.status = "ReleaseConsistencyViolation"

\* C10: the page PopulatePage(column, g) returns is attributed to the global
\* cluster that owns g: a cluster of the source i it was routed to, namely
\* clusterBase[i] plus the local cluster holding g - entryBase[i], with the
\* first element index of that cluster for the column in global numbering,
\* which is not above the page's first element.
C10_ClusterAttribution ==
  (last.op = "PopulatePage" /\ last.status = "ok") =>
    LET ch == last.ch
        i == Delegate
        k == last.page.clusterInfo.fId
        local == ClusterHolding(Source(ch, i), last.globalIndex - EntryBase(ch, i))
    IN /\ ClusterBase(ch, i) <= k
       /\ k < ClusterBase(ch, i + 1)
       /\ k = ClusterBase(ch, i) + local
       /\ last.page.clusterInfo.fSelfOffset =
            ColumnElementBase(ch, i, last.col)
              + Source(ch, i).clusters[local].fColumnRanges[last.col].fFirstElementIndex
       /\ last.page.clusterInfo.fSelfOffset <= last.page.first

====
